---- MODULE Spec2Model ----
(***************************************************************************)
(* Mayan EDMS: the REST views of the linking app (smart links and their    *)
(* conditions), the content forms of the document_parsing app and the      *)
(* submit_for_parsing methods the document_parsing app adds to Document    *)
(* and DocumentVersion.                                                    *)
(***************************************************************************)
EXTENDS Integers, Sequences, FiniteSets, TLC

\* ------------------------------------------------------------------ bounds
\* Primary keys of the SmartLink table are 1..MaxSmartLinks.
MaxSmartLinks == 2

SmartLinkPKs == 1..MaxSmartLinks
\* Primary keys of the SmartLinkCondition table.
ConditionPKs == {1, 2}
\* A document has at most MaxPages pages, numbered within 1..MaxPages.
MaxPages == 2
\* The text of a page content record has at most MaxTextLen characters.
MaxTextLen == 2
\* At most MaxCalls calls of submit_for_parsing are made.
MaxCalls == 3
\* The clock stops at MaxTime seconds.
MaxTime == 2

\* Primary keys of the DocumentVersion table.
VersionPKs == {1, 2}
\* The documents; a document may have no version.
DocumentPKs == {1, 2}
\* Values of the setting settings_db_sync_task_delay, in seconds.
SyncTaskDelays == {0, 2}
\* Values a serializer can write into the one data field of a row.
FieldValues == {"a", "b"}

VARIABLES
    SmartLink,           \* table: pk -> row; label = "" when the row does not exist
    SmartLinkCondition,  \* table: pk -> row; smart_link = 0 when the row does not exist
    user_permissions,    \* permissions request.user holds through its roles
    acl,                 \* <<permission, smart link pk>> granted to request.user by ACLs
    response,            \* the request being answered and its outcome
    document,            \* the instance a content form is built for
    form,                \* the content form that was built
    now,                 \* django.utils.timezone.now(), in seconds
    DocumentVersion,     \* table: version pk -> pk of its document, 0 = no row
    settings_db_sync_task_delay,  \* settings_db_sync_task_delay.value
    journal              \* what the submit_for_parsing calls did, in order

linking_vars == <<SmartLink, SmartLinkCondition, user_permissions, acl, response>>
forms_vars == <<document, form>>
parsing_vars == <<now, DocumentVersion, settings_db_sync_task_delay, journal>>
vars == <<linking_vars, forms_vars, parsing_vars>>

\* ------------------------------------------------------------ permissions
permission_smart_link_create == "smart_link_create"
permission_smart_link_delete == "smart_link_delete"
permission_smart_link_edit == "smart_link_edit"
permission_smart_link_view == "smart_link_view"

Permissions ==
    {permission_smart_link_create, permission_smart_link_delete,
     permission_smart_link_edit, permission_smart_link_view}

\* The permissions an ACL can grant on a smart link.
ObjectPermissions ==
    {permission_smart_link_delete, permission_smart_link_edit,
     permission_smart_link_view}

\* Permission.check_permissions(user, permissions): returns when the user
\* holds one of the permissions of the tuple through a role, raises PermissionDenied
\* otherwise.  TRUE = returns.
check_permissions(permissions) ==
    \E i \in 1..Len(permissions) : permissions[i] \in user_permissions

\* AccessControlList.objects.check_access(permission, user, obj): returns
\* when an ACL of obj grants the permission to the user, raises
\* PermissionDenied otherwise.  TRUE = returns.
check_access(permission, pk) == <<permission, pk>> \in acl

\* AccessControlList.objects.filter_by_access(permission, user, queryset)
filter_by_access(permission, queryset) ==
    {pk \in queryset : <<permission, pk>> \in acl}

\* ------------------------------------------------------------------ tables
NoSmartLink == [label |-> ""]
NoCondition == [smart_link |-> 0, expression |-> ""]

SmartLinkRows == [label : FieldValues]
ConditionRows == [smart_link : SmartLinkPKs, expression : FieldValues]

\* SmartLink.objects.all()
SmartLink_objects_all == {pk \in SmartLinkPKs : SmartLink[pk] # NoSmartLink}

\* smart_link.conditions.all(): the reverse side of the condition's foreign key
conditions_all(pk) ==
    {c \in ConditionPKs : SmartLinkCondition[c].smart_link = pk}

\* get_object_or_404(SmartLink, pk=...): TRUE = the row is found
get_object_or_404(pk) == pk \in SmartLink_objects_all

NoResponse ==
    [view |-> "", method |-> "", pk |-> 0, condition_pk |-> 0,
     status |-> 0, data |-> {}, acl_consulted |-> FALSE]

Respond(view, method, pk, condition_pk, status, data, consulted) ==
    [view |-> view, method |-> method, pk |-> pk, condition_pk |-> condition_pk,
     status |-> status, data |-> data, acl_consulted |-> consulted]

\* ------------------------------------------ APISmartLinkConditionListView
APISmartLinkConditionListView_permission_required(method) ==
    IF method = "GET" THEN permission_smart_link_view
    ELSE permission_smart_link_edit

\* Mutant: the permission is checked before the smart link is looked up.
Mutant_ConditionListView_get_smart_link(method, pk) ==
    LET permission_required ==
            IF method = "GET" THEN permission_smart_link_view
            ELSE permission_smart_link_edit
    IN  IF check_permissions(<<permission_required>>)
        THEN [outcome |-> IF get_object_or_404(pk) THEN "ok" ELSE "Http404",
              acl_consulted |-> FALSE]
        ELSE IF check_access(permission_required, pk)
        THEN [outcome |-> IF get_object_or_404(pk) THEN "ok" ELSE "Http404",
              acl_consulted |-> TRUE]
        ELSE [outcome |-> "PermissionDenied", acl_consulted |-> TRUE]

\* The outcome of get_smart_link: the exception it raises or "ok", and
\* whether the ACL was consulted.
APISmartLinkConditionListView_get_smart_link(method, pk) ==
    LET permission_required ==
            APISmartLinkConditionListView_permission_required(method)
    IN  IF ~get_object_or_404(pk)
        THEN [outcome |-> "Http404", acl_consulted |-> FALSE]
        ELSE IF check_permissions(<<permission_required>>)
        THEN [outcome |-> "ok", acl_consulted |-> FALSE]
        ELSE IF check_access(permission_required, pk)
        THEN [outcome |-> "ok", acl_consulted |-> TRUE]
        ELSE [outcome |-> "PermissionDenied", acl_consulted |-> TRUE]

\* The exception handler of the REST framework: Http404 becomes status 404,
\* PermissionDenied status 403.
ExceptionStatus(outcome) ==
    IF outcome = "Http404" THEN 404 ELSE 403

APISmartLinkConditionListView_get_queryset(pk) == conditions_all(pk)

\* GET /smart_links/<pk>/conditions/
APISmartLinkConditionListView_get(pk) ==
    LET r == APISmartLinkConditionListView_get_smart_link("GET", pk)
    IN  /\ response' =
            IF r.outcome = "ok"
            THEN Respond("condition_list", "GET", pk, 0, 200,
                         APISmartLinkConditionListView_get_queryset(pk),
                         r.acl_consulted)
            ELSE Respond("condition_list", "GET", pk, 0,
                         ExceptionStatus(r.outcome), {}, r.acl_consulted)
        /\ UNCHANGED <<SmartLink, SmartLinkCondition, user_permissions, acl, forms_vars, parsing_vars>>

\* POST /smart_links/<pk>/conditions/ : the serializer is built with
\* get_serializer_context(), which calls get_smart_link(), and saves the new
\* condition under the smart link of its context.
APISmartLinkConditionListView_post(pk, expression) ==
    LET r == APISmartLinkConditionListView_get_smart_link("POST", pk)
        free == {c \in ConditionPKs : SmartLinkCondition[c] = NoCondition}
    IN  IF r.outcome = "ok"
        THEN \E c \in free :
                /\ SmartLinkCondition' =
                       [SmartLinkCondition EXCEPT
                           ![c] = [smart_link |-> pk, expression |-> expression]]
                /\ response' = Respond("condition_list", "POST", pk, 0,
                                       201, {c}, r.acl_consulted)
                /\ UNCHANGED <<SmartLink, user_permissions, acl, forms_vars, parsing_vars>>
        ELSE /\ response' = Respond("condition_list", "POST", pk, 0,
                                    ExceptionStatus(r.outcome), {},
                                    r.acl_consulted)
             /\ UNCHANGED <<SmartLink, SmartLinkCondition, user_permissions, acl, forms_vars, parsing_vars>>

\* ---------------------------------------------- APISmartLinkConditionView
\* Mutant: the else branch is lost, every method asks for the view permission.
Mutant_ConditionView_permission_required(method) == permission_smart_link_view

APISmartLinkConditionView_permission_required(method) ==
    IF method = "GET" THEN permission_smart_link_view
    ELSE permission_smart_link_edit

APISmartLinkConditionView_get_smart_link(method, pk) ==
    LET permission_required ==
            APISmartLinkConditionView_permission_required(method)
    IN  IF ~get_object_or_404(pk)
        THEN [outcome |-> "Http404", acl_consulted |-> FALSE]
        ELSE IF check_permissions(<<permission_required>>)
        THEN [outcome |-> "ok", acl_consulted |-> FALSE]
        ELSE IF check_access(permission_required, pk)
        THEN [outcome |-> "ok", acl_consulted |-> TRUE]
        ELSE [outcome |-> "PermissionDenied", acl_consulted |-> TRUE]

\* Mutant: the queryset is every condition, whatever its smart link.
Mutant_ConditionView_get_queryset(pk) ==
    {c \in ConditionPKs : SmartLinkCondition[c] # NoCondition}

APISmartLinkConditionView_get_queryset(pk) == conditions_all(pk)

\* GenericAPIView.get_object() over get_queryset() with
\* lookup_url_kwarg = 'condition_pk': the outcome and the object found.
APISmartLinkConditionView_get_object(method, pk, condition_pk) ==
    LET r == APISmartLinkConditionView_get_smart_link(method, pk)
    IN  IF r.outcome # "ok" THEN r
        ELSE IF condition_pk \in APISmartLinkConditionView_get_queryset(pk)
        THEN r
        ELSE [outcome |-> "Http404", acl_consulted |-> r.acl_consulted]

\* GET /smart_links/<pk>/conditions/<condition_pk>/
APISmartLinkConditionView_get(pk, condition_pk) ==
    LET r == APISmartLinkConditionView_get_object("GET", pk, condition_pk)
    IN  /\ response' =
            IF r.outcome = "ok"
            THEN Respond("condition_detail", "GET", pk, condition_pk,
                         200, {condition_pk}, r.acl_consulted)
            ELSE Respond("condition_detail", "GET", pk, condition_pk,
                         ExceptionStatus(r.outcome), {}, r.acl_consulted)
        /\ UNCHANGED <<SmartLink, SmartLinkCondition, user_permissions, acl, forms_vars, parsing_vars>>

\* PUT and PATCH share UpdateModelMixin.update()
APISmartLinkConditionView_update(method, pk, condition_pk, expression) ==
    LET r == APISmartLinkConditionView_get_object(method, pk, condition_pk)
    IN  /\ IF r.outcome = "ok"
           THEN /\ SmartLinkCondition' =
                       [SmartLinkCondition EXCEPT
                           ![condition_pk].expression = expression]
                /\ response' = Respond("condition_detail", method, pk,
                                       condition_pk, 200,
                                       {condition_pk}, r.acl_consulted)
           ELSE /\ response' = Respond("condition_detail", method, pk,
                                       condition_pk, ExceptionStatus(r.outcome),
                                       {}, r.acl_consulted)
                /\ UNCHANGED SmartLinkCondition
        /\ UNCHANGED <<SmartLink, user_permissions, acl, forms_vars, parsing_vars>>

\* PATCH /smart_links/<pk>/conditions/<condition_pk>/
APISmartLinkConditionView_patch(pk, condition_pk, expression) ==
    APISmartLinkConditionView_update("PATCH", pk, condition_pk, expression)

\* PUT /smart_links/<pk>/conditions/<condition_pk>/
APISmartLinkConditionView_put(pk, condition_pk, expression) ==
    APISmartLinkConditionView_update("PUT", pk, condition_pk, expression)

\* DELETE /smart_links/<pk>/conditions/<condition_pk>/
APISmartLinkConditionView_delete(pk, condition_pk) ==
    LET r == APISmartLinkConditionView_get_object("DELETE", pk, condition_pk)
    IN  /\ IF r.outcome = "ok"
           THEN /\ SmartLinkCondition' =
                       [SmartLinkCondition EXCEPT ![condition_pk] = NoCondition]
                /\ response' = Respond("condition_detail", "DELETE", pk,
                                       condition_pk, 204, {},
                                       r.acl_consulted)
           ELSE /\ response' = Respond("condition_detail", "DELETE", pk,
                                       condition_pk, ExceptionStatus(r.outcome),
                                       {}, r.acl_consulted)
                /\ UNCHANGED SmartLinkCondition
        /\ UNCHANGED <<SmartLink, user_permissions, acl, forms_vars, parsing_vars>>

\* ------------------------------------------------------------ rest_api
\* MayanPermission.has_permission(request, view): the view-level permission
\* mapped to the method, held through a role; a method with no mapping passes.
MayanPermission_has_permission(required_permission) ==
    IF required_permission # <<>>
    THEN check_permissions(required_permission)
    ELSE TRUE

\* MayanObjectPermissionsFilter.filter_queryset(request, queryset, view): the
\* whole queryset when the object permission mapped to the method is held
\* through a role, else the objects whose ACL grants it; a method with no
\* mapping is not filtered.
MayanObjectPermissionsFilter_filter_queryset(required_permission, queryset) ==
    IF required_permission # <<>>
    THEN IF check_permissions(required_permission)
         THEN queryset
         ELSE filter_by_access(required_permission[1], queryset)
    ELSE queryset

\* --------------------------------------------------- APISmartLinkListView
\* Mutant: the list view maps no object permission to GET.
Mutant_ListView_mayan_object_permissions(method) == <<>>

\* mayan_object_permissions.get(method), <<>> for None
APISmartLinkListView_mayan_object_permissions(method) ==
    IF method = "GET" THEN <<permission_smart_link_view>> ELSE <<>>

\* mayan_view_permissions.get(method), <<>> for None
APISmartLinkListView_mayan_view_permissions(method) ==
    IF method = "POST" THEN <<permission_smart_link_create>> ELSE <<>>

\* permission_classes = (MayanPermission,)
APISmartLinkListView_check_permissions(method) ==
    MayanPermission_has_permission(
        APISmartLinkListView_mayan_view_permissions(method))

\* filter_queryset(queryset) with filter_backends
APISmartLinkListView_filter_queryset(method) ==
    MayanObjectPermissionsFilter_filter_queryset(
        APISmartLinkListView_mayan_object_permissions(method),
        SmartLink_objects_all)

\* GET /smart_links/
APISmartLinkListView_get ==
    /\ response' =
           IF APISmartLinkListView_check_permissions("GET")
           THEN Respond("smart_link_list", "GET", 0, 0, 200,
                        APISmartLinkListView_filter_queryset("GET"), FALSE)
           ELSE Respond("smart_link_list", "GET", 0, 0, 403, {}, FALSE)
    /\ UNCHANGED <<SmartLink, SmartLinkCondition, user_permissions, acl,
                   forms_vars, parsing_vars>>

\* POST /smart_links/ : the new row takes a primary key no row has; no ACL
\* names the new object.
APISmartLinkListView_post(label) ==
    LET free == SmartLinkPKs \ SmartLink_objects_all
    IN  IF APISmartLinkListView_check_permissions("POST")
        THEN \E pk \in free :
                /\ SmartLink' = [SmartLink EXCEPT ![pk] = [label |-> label]]
                /\ response' = Respond("smart_link_list", "POST", 0, 0, 201,
                                       {pk}, FALSE)
                /\ UNCHANGED <<SmartLinkCondition, user_permissions, acl,
                               forms_vars, parsing_vars>>
        ELSE /\ response' = Respond("smart_link_list", "POST", 0, 0, 403, {},
                                    FALSE)
             /\ UNCHANGED <<SmartLink, SmartLinkCondition, user_permissions,
                            acl, forms_vars, parsing_vars>>

\* ------------------------------------------------------- APISmartLinkView
\* Mutant: DELETE is mapped to the edit permission.
Mutant_View_mayan_object_permissions(method) ==
    CASE method = "DELETE" -> <<permission_smart_link_edit>>
      [] method = "GET" -> <<permission_smart_link_view>>
      [] method = "PATCH" -> <<permission_smart_link_edit>>
      [] method = "PUT" -> <<permission_smart_link_edit>>
      [] OTHER -> <<>>

\* mayan_object_permissions.get(method), <<>> for None
APISmartLinkView_mayan_object_permissions(method) ==
    CASE method = "DELETE" -> <<permission_smart_link_delete>>
      [] method = "GET" -> <<permission_smart_link_view>>
      [] method = "PATCH" -> <<permission_smart_link_edit>>
      [] method = "PUT" -> <<permission_smart_link_edit>>
      [] OTHER -> <<>>

\* filter_queryset(queryset) with filter_backends
APISmartLinkView_filter_queryset(method) ==
    MayanObjectPermissionsFilter_filter_queryset(
        APISmartLinkView_mayan_object_permissions(method),
        SmartLink_objects_all)

\* GenericAPIView.get_object(): the object of the filtered queryset with the
\* primary key of the URL, or Http404.  TRUE = found.
APISmartLinkView_get_object(method, pk) ==
    pk \in APISmartLinkView_filter_queryset(method)

\* GET /smart_links/<pk>/
APISmartLinkView_get(pk) ==
    /\ response' =
           IF APISmartLinkView_get_object("GET", pk)
           THEN Respond("smart_link_detail", "GET", pk, 0, 200, {pk}, FALSE)
           ELSE Respond("smart_link_detail", "GET", pk, 0, 404, {}, FALSE)
    /\ UNCHANGED <<SmartLink, SmartLinkCondition, user_permissions, acl,
                   forms_vars, parsing_vars>>

\* PUT and PATCH share UpdateModelMixin.update()
APISmartLinkView_update(method, pk, label) ==
    /\ IF APISmartLinkView_get_object(method, pk)
       THEN /\ SmartLink' = [SmartLink EXCEPT ![pk] = [label |-> label]]
            /\ response' = Respond("smart_link_detail", method, pk, 0, 200,
                                   {pk}, FALSE)
       ELSE /\ response' = Respond("smart_link_detail", method, pk, 0, 404,
                                   {}, FALSE)
            /\ UNCHANGED SmartLink
    /\ UNCHANGED <<SmartLinkCondition, user_permissions, acl, forms_vars,
                   parsing_vars>>

\* PATCH /smart_links/<pk>/
APISmartLinkView_patch(pk, label) == APISmartLinkView_update("PATCH", pk, label)

\* PUT /smart_links/<pk>/
APISmartLinkView_put(pk, label) == APISmartLinkView_update("PUT", pk, label)

\* DELETE /smart_links/<pk>/ : the row goes, its conditions go with it
\* (foreign key), and the ACLs naming the deleted object name nothing any more.
APISmartLinkView_delete(pk) ==
    /\ IF APISmartLinkView_get_object("DELETE", pk)
       THEN /\ SmartLink' = [SmartLink EXCEPT ![pk] = NoSmartLink]
            /\ SmartLinkCondition' =
                   [c \in ConditionPKs |->
                       IF SmartLinkCondition[c].smart_link = pk
                       THEN NoCondition ELSE SmartLinkCondition[c]]
            /\ acl' = {a \in acl : a[2] # pk}
            /\ response' = Respond("smart_link_detail", "DELETE", pk, 0, 204,
                                   {}, FALSE)
       ELSE /\ response' = Respond("smart_link_detail", "DELETE", pk, 0, 404,
                                   {}, FALSE)
            /\ UNCHANGED <<SmartLink, SmartLinkCondition, acl>>
    /\ UNCHANGED <<user_permissions, forms_vars, parsing_vars>>

\* ------------------------------------------------- document_parsing.forms
\* The characters of a page's text: one that HTML escaping leaves alone and
\* two it replaces.
Chars == {"a", "<", "&"}

Texts == UNION {[1..n -> Chars] : n \in 0..MaxTextLen}

\* The optional DocumentPageContent record of a page: page.content raises
\* DocumentPageContent.DoesNotExist when has_content is FALSE.
ContentRecords ==
    [has_content : {TRUE}, content : Texts]
    \cup {[has_content |-> FALSE, content |-> <<>>]}

\* A DocumentPage with its content record.
PageRow(page_number, record) ==
    [page_number |-> page_number, has_content |-> record.has_content,
     content |-> record.content]

\* Stands for instance=None.
NoneInstance == [page_number |-> 0, has_content |-> FALSE, content |-> <<>>]

\* The page numberings of a document of n pages: distinct, in any order.
PageNumberings(n) ==
    {f \in [1..n -> 1..MaxPages] : \A i, j \in 1..n : i # j => f[i] # f[j]}

\* django.utils.html.escape on one character
escape(c) ==
    CASE c = "&" -> "&amp;"
      [] c = "<" -> "&lt;"
      [] c = ">" -> "&gt;"
      [] c = "\"" -> "&quot;"
      [] c = "'" -> "&#39;"
      [] OTHER -> c

\* conditional_escape(force_text(page_content)) for the plain text a content
\* record holds
RECURSIVE conditional_escape(_)
conditional_escape(text) ==
    IF text = <<>> THEN ""
    ELSE escape(Head(text)) \o conditional_escape(Tail(text))

\* The divider string of a page: ugettext('Page %(page_number)d') inside the
\* markup of the divider.
Divider(page_number) ==
    "\n\n\n<hr/><div class=\"document-page-content-divider\">- "
        \o "Page " \o ToString(page_number) \o " -</div><hr/>\n\n\n"

\* ''.join(content)
RECURSIVE join(_)
join(content) ==
    IF content = <<>> THEN "" ELSE Head(content) \o join(Tail(content))

\* Mutant: the divider is appended before the text of its page.
RECURSIVE Mutant_DocumentContentForm_content(_)
Mutant_DocumentContentForm_content(document_pages) ==
    IF document_pages = <<>> THEN <<>>
    ELSE LET page == Head(document_pages)
         IN  (IF page.has_content
              THEN <<Divider(page.page_number),
                     conditional_escape(page.content)>>
              ELSE <<>>)
             \o Mutant_DocumentContentForm_content(Tail(document_pages))

\* The loop of DocumentContentForm.__init__ over document_pages: the list
\* `content` it builds.
RECURSIVE DocumentContentForm_content(_)
DocumentContentForm_content(document_pages) ==
    IF document_pages = <<>> THEN <<>>
    ELSE LET page == Head(document_pages)
         IN  (IF page.has_content
              THEN <<conditional_escape(page.content),
                     Divider(page.page_number)>>
              ELSE <<>>)
             \o DocumentContentForm_content(Tail(document_pages))

\* DocumentContentForm(instance=document): self.document.pages.all() raises
\* AttributeError when the instance is None, and the pages are then [].
DocumentContentForm_init ==
    /\ form.class = ""
    /\ LET document_pages ==
               IF document.instance THEN document.pages ELSE <<>>
           content == DocumentContentForm_content(document_pages)
       IN  form' = [class |-> "DocumentContentForm", page |-> 0,
                    content |-> content, initial |-> join(content),
                    raised |-> ""]
    /\ UNCHANGED <<document, linking_vars, parsing_vars>>

\* Mutant: DocumentPageContent.DoesNotExist is not caught.
Mutant_DocumentPageContentForm_fields(document_page) ==
    IF document_page = NoneInstance
    THEN [initial |-> "", raised |-> "AttributeError"]
    ELSE IF ~document_page.has_content
    THEN [initial |-> "", raised |-> "DoesNotExist"]
    ELSE [initial |-> conditional_escape(document_page.content),
          raised |-> ""]

\* The body of DocumentPageContentForm.__init__: the initial value of
\* 'contents' and the exception that leaves the constructor.  None has no
\* attribute 'content', and AttributeError is not caught.
DocumentPageContentForm_fields(document_page) ==
    IF document_page = NoneInstance
    THEN [initial |-> "", raised |-> "AttributeError"]
    ELSE IF ~document_page.has_content
    THEN [initial |-> "", raised |-> ""]
    ELSE [initial |-> conditional_escape(document_page.content),
          raised |-> ""]

\* DocumentPageContentForm(instance=document.pages[i]), i = 0 for
\* DocumentPageContentForm() without an instance.
DocumentPageContentForm_init(i) ==
    /\ form.class = ""
    /\ LET document_page ==
               IF i = 0 THEN NoneInstance ELSE document.pages[i]
           f == DocumentPageContentForm_fields(document_page)
       IN  form' = [class |-> "DocumentPageContentForm", page |-> i,
                    content |-> <<>>, initial |-> f.initial,
                    raised |-> f.raised]
    /\ UNCHANGED <<document, linking_vars, parsing_vars>>

\* -------------------------------------------------- document_parsing.apps
\* One entry of the journal: a call of submit_for_parsing, the submit event
\* committed, the task handed to the queue, or the exception that ended a
\* call.  `caller` is "" for a call made from outside.
Entry(kind, pk, doc, time, caller) ==
    [kind |-> kind, pk |-> pk, document |-> doc, time |-> time,
     caller |-> caller]

\* Document.latest_version: the last version of the document, 0 for None.
latest_version(doc) ==
    LET versions == {v \in VersionPKs : DocumentVersion[v] = doc}
    IN  IF versions = {} THEN 0
        ELSE CHOOSE v \in versions : \A w \in versions : w <= v

\* Mutant: the task is handed to the queue before the event is committed.
Mutant_document_version_parsing_submit(self, caller, commit_ok) ==
    <<Entry("DocumentVersion.submit_for_parsing", self, DocumentVersion[self],
            now, caller),
      Entry("task_parse_document_version", self, 0,
            now + settings_db_sync_task_delay, caller)>>
    \o (IF commit_ok
        THEN <<Entry("event_parsing_document_version_submit", self,
                     DocumentVersion[self], now, caller)>>
        ELSE <<Entry("raise", self, DocumentVersion[self], now, caller)>>)

\* Mutant: a version that already has a task in the queue is not given
\* another one.
Mutant_dedup_document_version_parsing_submit(self, caller, commit_ok) ==
    <<Entry("DocumentVersion.submit_for_parsing", self, DocumentVersion[self],
            now, caller)>>
    \o (IF commit_ok
        THEN <<Entry("event_parsing_document_version_submit", self,
                     DocumentVersion[self], now, caller)>>
             \o (IF \E i \in 1..Len(journal) :
                        /\ journal[i].kind = "task_parse_document_version"
                        /\ journal[i].pk = self
                 THEN <<>>
                 ELSE <<Entry("task_parse_document_version", self, 0,
                              now + settings_db_sync_task_delay, caller)>>)
        ELSE <<Entry("raise", self, DocumentVersion[self], now, caller)>>)

\* DocumentVersion.submit_for_parsing: what the call adds to the journal.
\* event.commit(action_object=self.document, target=self) either returns or
\* raises (commit_ok); when it raises the call ends there.  The task entry
\* has pk = kwargs['document_version_pk'] and time = eta.
document_version_parsing_submit(self, caller, commit_ok) ==
    <<Entry("DocumentVersion.submit_for_parsing", self, DocumentVersion[self],
            now, caller)>>
    \o (IF commit_ok
        THEN <<Entry("event_parsing_document_version_submit", self,
                     DocumentVersion[self], now, caller),
               Entry("task_parse_document_version", self, 0,
                     now + settings_db_sync_task_delay, caller)>>
        ELSE <<Entry("raise", self, DocumentVersion[self], now, caller)>>)

\* Mutant: the check of latest_version is lost; None has no
\* submit_for_parsing.
Mutant_document_parsing_submit(self, commit_ok) ==
    <<Entry("Document.submit_for_parsing", 0, self, now, "")>>
    \o (IF latest_version(self) # 0
        THEN document_version_parsing_submit(
                 latest_version(self), "Document.submit_for_parsing",
                 commit_ok)
        ELSE <<Entry("raise", 0, self, now, "Document.submit_for_parsing")>>)

\* Document.submit_for_parsing: what the call adds to the journal.
document_parsing_submit(self, commit_ok) ==
    <<Entry("Document.submit_for_parsing", 0, self, now, "")>>
    \o (IF latest_version(self) # 0
        THEN document_version_parsing_submit(
                 latest_version(self), "Document.submit_for_parsing",
                 commit_ok)
        ELSE <<>>)

\* The calls made from outside so far.
CallsMade ==
    Cardinality({i \in 1..Len(journal) :
        /\ journal[i].caller = ""
        /\ journal[i].kind \in {"Document.submit_for_parsing",
                                "DocumentVersion.submit_for_parsing"}})

\* version.submit_for_parsing() on an existing version
SubmitDocumentVersion ==
    /\ CallsMade < MaxCalls
    /\ \E self \in VersionPKs, commit_ok \in BOOLEAN :
           /\ DocumentVersion[self] # 0
           /\ journal' = journal
                  \o document_version_parsing_submit(self, "", commit_ok)
    /\ UNCHANGED <<now, DocumentVersion, settings_db_sync_task_delay,
                   linking_vars, forms_vars>>

\* document.submit_for_parsing()
SubmitDocument ==
    /\ CallsMade < MaxCalls
    /\ \E self \in DocumentPKs, commit_ok \in BOOLEAN :
           journal' = journal \o document_parsing_submit(self, commit_ok)
    /\ UNCHANGED <<now, DocumentVersion, settings_db_sync_task_delay,
                   linking_vars, forms_vars>>

\* A second passes.
Tick ==
    /\ now < MaxTime
    /\ now' = now + 1
    /\ UNCHANGED <<DocumentVersion, settings_db_sync_task_delay, journal,
                   linking_vars, forms_vars>>

\* The variables of the forms and of the parsing methods, at rest.
FormsIdle ==
    /\ document = [instance |-> FALSE, pages |-> <<>>]
    /\ form = [class |-> "", page |-> 0, content |-> <<>>, initial |-> "",
                raised |-> ""]

ParsingIdle ==
    /\ now = 0
    /\ DocumentVersion = [v \in {} |-> 0]
    /\ settings_db_sync_task_delay = 0
    /\ journal = <<>>

\* --------------------------------------------------- the condition requests
\* The database as a request finds it: any smart links, any conditions whose
\* foreign key names an existing smart link, any role permissions, and ACLs
\* on existing smart links.
InitConditions ==
    /\ SmartLink \in [SmartLinkPKs -> {NoSmartLink, [label |-> "a"]}]
    /\ SmartLinkCondition \in [ConditionPKs -> ConditionRows \cup {NoCondition}]
    /\ \A c \in ConditionPKs :
           SmartLinkCondition[c] # NoCondition =>
               /\ SmartLinkCondition[c].smart_link \in SmartLink_objects_all
               /\ SmartLinkCondition[c].expression = "a"
    /\ user_permissions \in
           SUBSET {permission_smart_link_edit, permission_smart_link_view}
    /\ acl \in SUBSET ({permission_smart_link_edit, permission_smart_link_view}
                          \X SmartLink_objects_all)
    /\ response = NoResponse
    /\ FormsIdle
    /\ ParsingIdle

\* A request is taken up once the previous response has been returned.
Idle == response = NoResponse

\* The response goes back to the client.
ReturnResponse ==
    /\ response # NoResponse
    /\ response' = NoResponse
    /\ UNCHANGED <<SmartLink, SmartLinkCondition, user_permissions, acl, forms_vars, parsing_vars>>

ConditionListGet ==
    /\ Idle
    /\ \E pk \in SmartLinkPKs : APISmartLinkConditionListView_get(pk)
ConditionListPost ==
    /\ Idle
    /\ \E pk \in SmartLinkPKs, e \in FieldValues :
           APISmartLinkConditionListView_post(pk, e)
ConditionGet ==
    /\ Idle
    /\ \E pk \in SmartLinkPKs, c \in ConditionPKs :
           APISmartLinkConditionView_get(pk, c)
ConditionPatch ==
    /\ Idle
    /\ \E pk \in SmartLinkPKs, c \in ConditionPKs, e \in FieldValues :
           APISmartLinkConditionView_patch(pk, c, e)
ConditionPut ==
    /\ Idle
    /\ \E pk \in SmartLinkPKs, c \in ConditionPKs, e \in FieldValues :
           APISmartLinkConditionView_put(pk, c, e)
ConditionDelete ==
    /\ Idle
    /\ \E pk \in SmartLinkPKs, c \in ConditionPKs :
           APISmartLinkConditionView_delete(pk, c)

NextConditions ==
    \/ ConditionListGet
    \/ ConditionListPost
    \/ ConditionGet
    \/ ConditionPatch
    \/ ConditionPut
    \/ ConditionDelete
    \/ ReturnResponse

SpecConditions == InitConditions /\ [][NextConditions]_vars

\* -------------------------------------------------- the smart link requests
\* The database as a request finds it: any smart links, any role permissions,
\* ACLs on existing smart links, and no conditions.
InitSmartLinks ==
    /\ SmartLink \in [SmartLinkPKs -> SmartLinkRows \cup {NoSmartLink}]
    /\ SmartLinkCondition = [c \in ConditionPKs |-> NoCondition]
    /\ user_permissions \in SUBSET Permissions
    /\ acl \in SUBSET (ObjectPermissions \X SmartLink_objects_all)
    /\ response = NoResponse
    /\ FormsIdle
    /\ ParsingIdle

SmartLinkListGet == Idle /\ APISmartLinkListView_get
SmartLinkListPost ==
    /\ Idle
    /\ \E label \in FieldValues : APISmartLinkListView_post(label)
SmartLinkGet ==
    /\ Idle
    /\ \E pk \in SmartLinkPKs : APISmartLinkView_get(pk)
SmartLinkPatch ==
    /\ Idle
    /\ \E pk \in SmartLinkPKs, label \in FieldValues :
           APISmartLinkView_patch(pk, label)
SmartLinkPut ==
    /\ Idle
    /\ \E pk \in SmartLinkPKs, label \in FieldValues :
           APISmartLinkView_put(pk, label)
SmartLinkDelete ==
    /\ Idle
    /\ \E pk \in SmartLinkPKs : APISmartLinkView_delete(pk)

NextSmartLinks ==
    \/ SmartLinkListGet
    \/ SmartLinkListPost
    \/ SmartLinkGet
    \/ SmartLinkPatch
    \/ SmartLinkPut
    \/ SmartLinkDelete
    \/ ReturnResponse

SpecSmartLinks == InitSmartLinks /\ [][NextSmartLinks]_vars

\* ------------------------------------------------------------- the forms
LinkingIdle ==
    /\ SmartLink = [pk \in SmartLinkPKs |-> NoSmartLink]
    /\ SmartLinkCondition = [c \in ConditionPKs |-> NoCondition]
    /\ user_permissions = {}
    /\ acl = {}
    /\ response = NoResponse

\* No instance, or a document of up to MaxPages pages, and no form built yet.
InitForms ==
    /\ \/ document = [instance |-> FALSE, pages |-> <<>>]
       \/ \E n \in 0..MaxPages :
              \E numbers \in PageNumberings(n),
                 records \in [1..n -> ContentRecords] :
                  document =
                      [instance |-> TRUE,
                       pages |-> [i \in 1..n |->
                                     PageRow(numbers[i], records[i])]]
    /\ form = [class |-> "", page |-> 0, content |-> <<>>, initial |-> "",
               raised |-> ""]
    /\ LinkingIdle
    /\ ParsingIdle

BuildDocumentContentForm == DocumentContentForm_init
BuildDocumentPageContentForm ==
    \E i \in 0..Len(document.pages) : DocumentPageContentForm_init(i)

NextForms ==
    \/ BuildDocumentContentForm
    \/ BuildDocumentPageContentForm

SpecForms == InitForms /\ [][NextForms]_vars

\* ------------------------------------------------ the submissions
\* Any versions of the documents, any value of the setting, nothing submitted.
InitParsing ==
    /\ now = 0
    /\ DocumentVersion \in [VersionPKs -> DocumentPKs \cup {0}]
    /\ settings_db_sync_task_delay \in SyncTaskDelays
    /\ journal = <<>>
    /\ LinkingIdle
    /\ FormsIdle

NextParsing ==
    \/ SubmitDocumentVersion
    \/ SubmitDocument
    \/ Tick

SpecParsing == InitParsing /\ [][NextParsing]_vars

\* ------------------------------------------------- properties: linking
ConditionViews == {"condition_list", "condition_detail"}
SmartLinkViews == {"smart_link_list", "smart_link_detail"}
Success == {200, 201, 204}

\* C1: on both condition endpoints a request addressed to smart link L is let
\* through only if the user holds, through a role or through an ACL on L, the
\* view permission for GET and the edit permission for every other method; the
\* ACL is consulted only when the role check denies; a user holding neither is
\* answered 403, is shown no condition, and leaves every condition as it was.
C1_ConditionGate ==
    [][ response'.view \in ConditionViews =>
          LET L == response'.pk
              p == IF response'.method = "GET" THEN "smart_link_view"
                   ELSE "smart_link_edit"
              held == p \in user_permissions \/ <<p, L>> \in acl
          IN  /\ response'.status \in Success => held
              /\ response'.acl_consulted => p \notin user_permissions
              /\ held => response'.status # 403
              /\ ~held =>
                    /\ SmartLink[L] # NoSmartLink => response'.status = 403
                    /\ response'.data = {}
                    /\ SmartLinkCondition' = SmartLinkCondition
      ]_vars

\* C1 witness: a PUT on a condition of L by a user whose only permission on L
\* is the view permission, through an ACL, was answered 403.
C1_Witness ==
    /\ response.view = "condition_detail"
    /\ response.method = "PUT"
    /\ response.status = 403
    /\ response.acl_consulted
    /\ <<"smart_link_view", response.pk>> \in acl
    /\ SmartLinkCondition[response.condition_pk].smart_link = response.pk

\* C10: on the condition endpoints the smart link is looked up before any
\* permission is checked: a pk that names no smart link is answered 404,
\* whatever the user holds, without the ACL being consulted, and 403 is
\* answered only for a smart link that exists.
C10_LookupBeforePermission ==
    response.view \in ConditionViews =>
        /\ SmartLink[response.pk] = NoSmartLink =>
               response.status = 404 /\ ~response.acl_consulted
        /\ response.status = 403 => SmartLink[response.pk] # NoSmartLink

\* C10 witness: a POST to the conditions of a smart link that does not exist,
\* by a user with no permission at all, was answered 404.
C10_Witness ==
    /\ response.view = "condition_list"
    /\ response.method = "POST"
    /\ SmartLink[response.pk] = NoSmartLink
    /\ user_permissions = {}
    /\ acl = {}
    /\ response.status = 404

\* C9: the condition endpoints are scoped to the smart link of the URL: the
\* list holds exactly the conditions of L, and a retrieve, update or delete
\* whose condition_pk is not a condition of L is never answered with success
\* and changes no condition; when the user holds both permissions and L
\* exists it is answered 404.
C9_ScopedToSmartLink ==
    [][ /\ ( /\ response'.view = "condition_list"
             /\ response'.method = "GET"
             /\ response'.status = 200 ) =>
                response'.data =
                    {c \in ConditionPKs :
                        SmartLinkCondition[c].smart_link = response'.pk}
        /\ ( /\ response'.view = "condition_detail"
             /\ SmartLinkCondition[response'.condition_pk].smart_link
                    # response'.pk ) =>
                /\ response'.status \in {403, 404}
                /\ response'.data = {}
                /\ SmartLinkCondition' = SmartLinkCondition
                /\ ( /\ {"smart_link_view", "smart_link_edit"}
                            \subseteq user_permissions
                     /\ SmartLink[response'.pk] # NoSmartLink ) =>
                        response'.status = 404
      ]_vars

\* C9 witness: a DELETE addressed to smart link L for a condition of another
\* smart link, by a user holding both permissions, was answered 404.
C9_Witness ==
    /\ response.view = "condition_detail"
    /\ response.method = "DELETE"
    /\ response.status = 404
    /\ SmartLink[response.pk] # NoSmartLink
    /\ SmartLinkCondition[response.condition_pk].smart_link
           \notin {0, response.pk}
    /\ {"smart_link_view", "smart_link_edit"} \subseteq user_permissions

\* The permission mapped to a method of the smart link endpoints, "" for none.
C2_Mapped(view, method) ==
    CASE view = "smart_link_list" /\ method = "POST" -> "smart_link_create"
      [] view = "smart_link_detail" /\ method = "DELETE" -> "smart_link_delete"
      [] view = "smart_link_detail" /\ method = "GET" -> "smart_link_view"
      [] view = "smart_link_detail" /\ method \in {"PATCH", "PUT"} ->
            "smart_link_edit"
      [] OTHER -> ""

\* C2: on the smart link endpoints POST on the list asks for the create
\* permission held through a role, and on the detail endpoint DELETE asks for
\* the delete permission, GET for the view permission, PATCH and PUT for the
\* edit permission, held through a role or an ACL on that smart link.  A
\* request by a user who lacks the permission of its method returns no smart
\* link and leaves every smart link as it was; one by a user who holds it,
\* for an existing smart link, succeeds.
C2_MethodGate ==
    [][ ( /\ response'.view \in SmartLinkViews
          /\ C2_Mapped(response'.view, response'.method) # "" ) =>
          LET p == C2_Mapped(response'.view, response'.method)
              pk == response'.pk
              held == \/ p \in user_permissions
                      \/ /\ response'.view = "smart_link_detail"
                         /\ <<p, pk>> \in acl
          IN  /\ ~held =>
                    /\ response'.status \in {403, 404}
                    /\ response'.data = {}
                    /\ SmartLink' = SmartLink
                    /\ SmartLinkCondition' = SmartLinkCondition
              /\ ( /\ held
                   /\ response'.view = "smart_link_detail" =>
                          SmartLink[pk] # NoSmartLink ) =>
                    response'.status \in Success
      ]_vars

\* C2 witness: a DELETE of an existing smart link by a user who holds the
\* view and edit permissions but not the delete permission removed nothing.
C2_Witness ==
    /\ response.view = "smart_link_detail"
    /\ response.method = "DELETE"
    /\ response.status = 404
    /\ SmartLink[response.pk] # NoSmartLink
    /\ {"smart_link_view", "smart_link_edit"} \subseteq user_permissions
    /\ <<"smart_link_edit", response.pk>> \in acl

\* C3: GET on the smart link list returns exactly the smart links the user
\* may view: every existing smart link when the view permission is held
\* through a role, else exactly those whose ACL grants the user that permission.
C3_ListIsViewable ==
    (response.view = "smart_link_list" /\ response.method = "GET") =>
        /\ response.status = 200
        /\ response.data =
               IF "smart_link_view" \in user_permissions
               THEN {pk \in SmartLinkPKs : SmartLink[pk] # NoSmartLink}
               ELSE {pk \in SmartLinkPKs :
                        /\ SmartLink[pk] # NoSmartLink
                        /\ <<"smart_link_view", pk>> \in acl}

\* C3 witness: the list was returned to a user without the role permission
\* and holds some, but not all, of the existing smart links.
C3_Witness ==
    /\ response.view = "smart_link_list"
    /\ response.method = "GET"
    /\ "smart_link_view" \notin user_permissions
    /\ response.data # {}
    /\ \E pk \in SmartLinkPKs :
           SmartLink[pk] # NoSmartLink /\ pk \notin response.data

\* --------------------------------------------------- properties: forms
C4_HasContent(page) == page.has_content

\* The escaped text and divider of the first j pages of ps, joined.
RECURSIVE C4_Joined(_, _)
C4_Joined(ps, j) ==
    IF j = 0 THEN ""
    ELSE C4_Joined(ps, j - 1) \o conditional_escape(ps[j].content)
             \o Divider(ps[j].page_number)

\* C4: the initial value of 'contents' of DocumentContentForm is, over the
\* pages that have a content record, in the order the document yields them,
\* the escaped text of the page followed at once by the divider carrying that
\* page's number: as many dividers as pages with a content record, each one
\* right after the text of its page; no pages or no instance gives the
\* empty string, and nothing is raised.
C4_Concatenation ==
    form.class = "DocumentContentForm" =>
        LET ps == SelectSeq(document.pages, C4_HasContent)
        IN  /\ form.raised = ""
            /\ Len(form.content) = 2 * Len(ps)
            /\ \A j \in 1..Len(ps) :
                   /\ form.content[2 * j - 1] = conditional_escape(ps[j].content)
                   /\ form.content[2 * j] = Divider(ps[j].page_number)
            /\ form.initial = C4_Joined(ps, Len(ps))
            /\ (~document.instance \/ document.pages = <<>>) =>
                   form.initial = ""

\* C4 witness: the form was built for a document with MaxPages pages that all
\* have a content record, the first one with text that escaping changes.
C4_Witness ==
    /\ form.class = "DocumentContentForm"
    /\ Len(document.pages) = MaxPages
    /\ \A i \in 1..MaxPages : document.pages[i].has_content
    /\ document.pages[1].content = <<"<">>
    /\ document.pages[1].page_number = MaxPages
    /\ Len(form.content) = 2 * MaxPages

\* C7: a page without a content record gives empty text, not an error:
\* DocumentPageContentForm for such a page has '' as initial value and raises
\* nothing, and has the page's escaped text when the record exists; in
\* DocumentContentForm such a page adds neither text nor divider, and every
\* page that has a record still has its text and divider in the result.
C7_AbsentContent ==
    /\ (form.class = "DocumentPageContentForm" /\ form.page # 0) =>
           LET page == document.pages[form.page]
           IN  /\ form.raised = ""
               /\ ~page.has_content => form.initial = ""
               /\ page.has_content =>
                      form.initial = conditional_escape(page.content)
    /\ form.class = "DocumentContentForm" =>
           /\ form.raised = ""
           /\ \A i \in 1..Len(document.pages) :
                  LET page == document.pages[i]
                      at == {k \in 1..Len(form.content) :
                                form.content[k] = Divider(page.page_number)}
                  IN  IF page.has_content
                      THEN /\ Cardinality(at) = 1
                           /\ \A k \in at :
                                  /\ k > 1
                                  /\ form.content[k - 1] =
                                         conditional_escape(page.content)
                      ELSE at = {}
           /\ Len(form.content) =
                  2 * Cardinality({i \in 1..Len(document.pages) :
                                      document.pages[i].has_content})

\* C7 witness: DocumentPageContentForm was built for a page that has no
\* content record, in a document whose other page has one.
C7_Witness ==
    /\ form.class = "DocumentPageContentForm"
    /\ form.page = 1
    /\ Len(document.pages) = 2
    /\ ~document.pages[1].has_content
    /\ document.pages[2].has_content

\* ------------------------------------------------- properties: parsing
VersionCall == "DocumentVersion.submit_for_parsing"
DocumentCall == "Document.submit_for_parsing"
SubmitEvent == "event_parsing_document_version_submit"
ParseTask == "task_parse_document_version"

\* How many entries of this kind the journal holds for version v.
Count(kind, v) ==
    Cardinality({i \in 1..Len(journal) :
                    journal[i].kind = kind /\ journal[i].pk = v})

\* C5: a call of submit_for_parsing on version V commits the submit event
\* (action object V's document, target V) and then schedules exactly one
\* task_parse_document_version with document_version_pk = V and eta = time
\* of the call + settings_db_sync_task_delay; when the commit raises, the
\* call schedules nothing.  In the journal: a task comes right after the
\* event of the same call, an event right after its call, and a call is
\* followed by its event and its task, or by the exception alone.
C5_OneDelayedTaskAfterEvent ==
    \A i \in 1..Len(journal) :
        LET e == journal[i]
        IN  /\ e.kind = ParseTask =>
                  /\ i >= 3
                  /\ journal[i - 1].kind = SubmitEvent
                  /\ journal[i - 1].pk = e.pk
                  /\ journal[i - 2].kind = VersionCall
                  /\ journal[i - 2].pk = e.pk
                  /\ e.time = journal[i - 2].time + settings_db_sync_task_delay
                  /\ e.time >= journal[i - 2].time
            /\ e.kind = SubmitEvent =>
                  /\ i >= 2
                  /\ journal[i - 1].kind = VersionCall
                  /\ journal[i - 1].pk = e.pk
                  /\ e.document = DocumentVersion[e.pk]
            /\ e.kind = VersionCall =>
                  /\ i < Len(journal)
                  /\ journal[i + 1].pk = e.pk
                  /\ \/ /\ journal[i + 1].kind = SubmitEvent
                        /\ i + 2 <= Len(journal)
                        /\ journal[i + 2].kind = ParseTask
                        /\ journal[i + 2].pk = e.pk
                        /\ i + 3 <= Len(journal) =>
                               journal[i + 3].kind \in {VersionCall, DocumentCall}
                     \/ /\ journal[i + 1].kind = "raise"
                        /\ i + 2 <= Len(journal) =>
                               journal[i + 2].kind \in {VersionCall, DocumentCall}

\* C5 witness: after some time a call scheduled a task with a positive
\* delay, and another call ended in its event commit raising.
C5_Witness ==
    /\ settings_db_sync_task_delay > 0
    /\ \E i \in 1..Len(journal) :
           /\ journal[i].kind = ParseTask
           /\ journal[i].time > settings_db_sync_task_delay
    /\ \E i \in 1..Len(journal) : journal[i].kind = "raise"

\* C6: Document.submit_for_parsing on a document without a version returns
\* and commits and schedules nothing; on a document with versions it calls
\* submit_for_parsing on the latest version, once, and on no other version:
\* one event and one task for the latest version's pk, or, when the event
\* commit raises, that exception and nothing else.
C6_LatestVersionOrNothing ==
    \A i \in 1..Len(journal) :
        LET e == journal[i]
            versions == {v \in VersionPKs : DocumentVersion[v] = e.document}
        IN  /\ e.kind = DocumentCall =>
                  IF versions = {}
                  THEN i < Len(journal) =>
                           /\ journal[i + 1].caller = ""
                           /\ journal[i + 1].kind \in {VersionCall, DocumentCall}
                  ELSE /\ i + 2 <= Len(journal)
                       /\ journal[i + 1].kind = VersionCall
                       /\ journal[i + 1].caller = DocumentCall
                       /\ journal[i + 1].pk \in versions
                       /\ \A v \in versions : v <= journal[i + 1].pk
                       /\ journal[i + 2].pk = journal[i + 1].pk
                       /\ \/ /\ journal[i + 2].kind = SubmitEvent
                             /\ i + 3 <= Len(journal)
                             /\ journal[i + 3].kind = ParseTask
                             /\ journal[i + 3].pk = journal[i + 1].pk
                             /\ i + 4 <= Len(journal) =>
                                    journal[i + 4].caller = ""
                          \/ /\ journal[i + 2].kind = "raise"
                             /\ i + 3 <= Len(journal) =>
                                    journal[i + 3].caller = ""
            /\ (e.kind = VersionCall /\ e.caller = DocumentCall) =>
                  /\ i >= 2
                  /\ journal[i - 1].kind = DocumentCall
                  /\ journal[i - 1].document = DocumentVersion[e.pk]
            /\ (e.kind # VersionCall /\ e.caller = DocumentCall) =>
                  /\ e.kind \in {SubmitEvent, ParseTask, "raise"}
                  /\ e.pk # 0
                  /\ \A v \in VersionPKs :
                         DocumentVersion[v] = DocumentVersion[e.pk] => v <= e.pk

\* C6 witness: submit_for_parsing was called on a document without a version
\* and on a document with two versions, whose latest got the event and the task.
C6_Witness ==
    /\ \E i \in 1..Len(journal) :
           /\ journal[i].kind = DocumentCall
           /\ \A v \in VersionPKs : DocumentVersion[v] # journal[i].document
    /\ \E i \in 1..Len(journal) :
           /\ journal[i].kind = ParseTask
           /\ journal[i].caller = DocumentCall
           /\ Cardinality({v \in VersionPKs :
                  DocumentVersion[v] = DocumentVersion[journal[i].pk]}) >= 2

====
